---- MODULE Spec2Model ----
(***************************************************************************)
(* The financial projection engine of fin-modeler (lib/financeEngine):     *)
(* runScenario, its calculation primitives and its summary aggregator,     *)
(* as a state machine with one step per loop iteration of runScenario.     *)
(*                                                                         *)
(* JavaScript numbers are modelled as exact rationals n/d (d > 0, lowest   *)
(* terms) next to the values NaN, +/-Infinity, undefined and null, all     *)
(* records of the same shape [k, n, d].  The inputs are chosen so that     *)
(* every intermediate value is finite; IEEE rounding is not modelled.      *)
(***************************************************************************)
EXTENDS Integers, Sequences, FiniteSets, TLC

(***************************************************************************)
(* JavaScript values                                                       *)
(***************************************************************************)
Abs(x) == IF x < 0 THEN -x ELSE x

RECURSIVE GCD(_, _)
GCD(a, b) == IF b = 0 THEN a ELSE GCD(b, a % b)

\* the rational n/d, d # 0, in lowest terms with a positive denominator
Q(n, d) ==
  LET s == IF d < 0 THEN -1 ELSE 1
      g == GCD(Abs(n), Abs(d))
  IN  [k |-> "num", n |-> (s * n) \div g, d |-> (s * d) \div g]

I(n) == [k |-> "num", n |-> n, d |-> 1]

NaN == [k |-> "nan", n |-> 0, d |-> 1]
Undefined == [k |-> "undefined", n |-> 0, d |-> 1]
Null == [k |-> "null", n |-> 0, d |-> 1]
\* s = 1: Infinity, s = -1: -Infinity
Inf(s) == [k |-> "inf", n |-> s, d |-> 1]

IsNum(x) == x.k = "num"
IsInf(x) == x.k = "inf"
Sign(x) == IF x.n > 0 THEN 1 ELSE IF x.n < 0 THEN -1 ELSE 0

\* ToNumber: undefined -> NaN, null -> +0
ToNumber(x) ==
  IF x.k = "undefined" THEN NaN ELSE IF x.k = "null" THEN I(0) ELSE x

\* the value of a property read obj.f: undefined when obj has no property f
Get(obj, f) == IF f \in DOMAIN obj THEN obj[f] ELSE Undefined

IsUndefined(x) == "k" \in DOMAIN x /\ x.k = "undefined"
IsNullish(x) == "k" \in DOMAIN x /\ x.k \in {"undefined", "null"}

\* obj?.f
Opt(obj, f) == IF IsNullish(obj) THEN Undefined ELSE Get(obj, f)

\* a ?? b
Nullish(a, b) == IF IsNullish(a) THEN b ELSE a

\* ToBoolean: NaN, 0, undefined and null are falsy; objects are truthy
Truthy(x) ==
  IF "k" \in DOMAIN x
    THEN (x.k = "num" /\ x.n # 0) \/ x.k = "inf"
    ELSE TRUE

\* a || b
JsOr(a, b) == IF Truthy(a) THEN a ELSE b

\* F(x) and F(x, y) with the arguments evaluated once, before F is applied
Let1(F(_), x) == CHOOSE r \in {F(a) : a \in {x}} : TRUE
Let2(F(_, _), x, y) == CHOOSE r \in {F(a, b) : a \in {x}, b \in {y}} : TRUE

\* a + b on numbers
AddNumbers(a, b) ==
  IF a.k = "nan" \/ b.k = "nan" THEN NaN
  ELSE IF IsInf(a) /\ IsInf(b) THEN (IF a.n = b.n THEN a ELSE NaN)
  ELSE IF IsInf(a) THEN a
  ELSE IF IsInf(b) THEN b
  ELSE LET g == GCD(a.d, b.d)
       IN  Q(a.n * (b.d \div g) + b.n * (a.d \div g), (a.d \div g) * b.d)

\* a + b
JsAdd(x, y) == Let2(AddNumbers, ToNumber(x), ToNumber(y))

NegNumber(a) == IF a.k = "nan" THEN NaN ELSE [a EXCEPT !.n = -a.n]

\* -a
JsNeg(x) == Let1(NegNumber, ToNumber(x))

\* a - b
JsSub(x, y) == JsAdd(x, JsNeg(y))

\* a * b on numbers
MulNumbers(a, b) ==
  IF a.k = "nan" \/ b.k = "nan" THEN NaN
  ELSE IF IsInf(a) \/ IsInf(b)
    THEN (IF Sign(a) * Sign(b) = 0 THEN NaN ELSE Inf(Sign(a) * Sign(b)))
  ELSE LET g1 == GCD(Abs(a.n), b.d)
           g2 == GCD(Abs(b.n), a.d)
       IN  Q((a.n \div g1) * (b.n \div g2), (a.d \div g2) * (b.d \div g1))

\* a * b
JsMul(x, y) == Let2(MulNumbers, ToNumber(x), ToNumber(y))

\* a / b on numbers
DivNumbers(a, b) ==
  IF a.k = "nan" \/ b.k = "nan" THEN NaN
  ELSE IF IsInf(a) THEN (IF IsInf(b) THEN NaN
                         ELSE Inf(a.n * (IF Sign(b) < 0 THEN -1 ELSE 1)))
  ELSE IF IsInf(b) THEN I(0)
  ELSE IF b.n = 0 THEN (IF a.n = 0 THEN NaN ELSE Inf(Sign(a)))
  ELSE MulNumbers(a, Q(b.d, b.n))

\* a / b
JsDiv(x, y) == Let2(DivNumbers, ToNumber(x), ToNumber(y))

\* the order of two rationals a/b and c/d (b, d > 0): -1, 0 or 1, by their
\* continued fractions, so that no product is formed
RECURSIVE CmpFrac(_, _, _, _)
CmpFrac(a, b, c, d) ==
  IF a \div b < c \div d THEN -1
  ELSE IF a \div b > c \div d THEN 1
  ELSE IF a % b = 0 /\ c % d = 0 THEN 0
  ELSE IF a % b = 0 THEN -1
  ELSE IF c % d = 0 THEN 1
  ELSE CmpFrac(d, c % d, b, a % b)

\* the order of two numbers: -1, 0 or 1, and 2 when either is NaN
Cmp(a, b) ==
  IF a.k = "nan" \/ b.k = "nan" THEN 2
  ELSE IF IsInf(a) \/ IsInf(b)
    THEN (IF (IF IsInf(a) THEN a.n ELSE 0) < (IF IsInf(b) THEN b.n ELSE 0)
            THEN -1
            ELSE IF (IF IsInf(a) THEN a.n ELSE 0) > (IF IsInf(b) THEN b.n ELSE 0)
              THEN 1 ELSE 0)
    ELSE CmpFrac(a.n, a.d, b.n, b.d)

JsCmp(x, y) == Let2(Cmp, ToNumber(x), ToNumber(y))

\* a < b, a <= b, a > b: false when either side is NaN
JsLt(x, y) == JsCmp(x, y) = -1
JsLe(x, y) == JsCmp(x, y) \in {-1, 0}
JsGt(x, y) == JsCmp(x, y) = 1

\* Math.max(a, b), Math.min(a, b) on numbers
MaxNumbers(a, b) ==
  IF a.k = "nan" \/ b.k = "nan" THEN NaN
  ELSE IF Cmp(a, b) >= 0 THEN a ELSE b

MinNumbers(a, b) ==
  IF a.k = "nan" \/ b.k = "nan" THEN NaN
  ELSE IF Cmp(a, b) <= 0 THEN a ELSE b

MathMax(x, y) == Let2(MaxNumbers, ToNumber(x), ToNumber(y))
MathMin(x, y) == Let2(MinNumbers, ToNumber(x), ToNumber(y))

(***************************************************************************)
(* Sequences: Array.prototype.find, filter, map and reduce                 *)
(***************************************************************************)
\* reduce((sum, v) => sum + v, 0) over a sequence of numbers, left to right
RECURSIVE SumSeq(_)
SumFrom(s) ==
  IF Len(s) = 0 THEN I(0)
  ELSE JsAdd(SumSeq(SubSeq(s, 1, Len(s) - 1)), s[Len(s)])

SumSeq(s) == Let1(SumFrom, s)

\* the last entry of the list for the month
FindLastCustomOverride(list, monthIndex) ==
  IF IsNullish(list) THEN Undefined
  ELSE LET a == list.arr
           hits == {i \in 1..Len(a) : a[i].monthOffset = monthIndex}
       IN  IF hits = {} THEN Undefined
           ELSE a[CHOOSE i \in hits : \A j \in hits : i >= j]

\* An array that may be undefined is the object [arr |-> <<...>>].
\* customMonthlyOverrides?.find((o) => o.monthOffset === monthIndex): the
\* first entry of the list for the month, undefined when there is none
FindCustomOverride(list, monthIndex) ==
  IF IsNullish(list) THEN Undefined
  ELSE LET a == list.arr
           hits == {i \in 1..Len(a) : a[i].monthOffset = monthIndex}
       IN  IF hits = {} THEN Undefined
           ELSE a[CHOOSE i \in hits : \A j \in hits : i <= j]

(***************************************************************************)
(* utils.ts                                                                *)
(***************************************************************************)
\* A month label "YYYY-MM" is the record [year |-> YYYY, month |-> MM].
\* new Date(year, month - 1, 1) reads a year 0..99 as 1900 + year;
\* setMonth carries into the year; formatMonth prints getFullYear() and
\* the month padded to two digits.
addMonths(startMonth, monthsToAdd) ==
  LET year == startMonth.year
      month == startMonth.month
      full == IF year >= 0 /\ year <= 99 THEN 1900 + year ELSE year
      t == full * 12 + (month - 1) + monthsToAdd
  IN  [year |-> t \div 12, month |-> (t % 12) + 1]

(***************************************************************************)
(* calculations.ts                                                         *)
(***************************************************************************)
\* the floor left out: previous + new - churned as it is
FloorAtZeroMissing(v) == v

\* Math.max(0, previous + new - churned)
FloorAtZero(v) == MathMax(I(0), v)

calculateActiveCustomers(previousActiveCustomers, assumptions, monthIndex, overrides) ==
  LET customOverride ==
        FindCustomOverride(Opt(overrides, "customMonthlyOverrides"),
                           I(monthIndex))
      multiplier == Opt(overrides, "customerGrowthMultiplier")
      grown == IF Truthy(multiplier)
                 THEN JsMul(assumptions.expectedNewCustomersPerMonth,
                            multiplier)
                 ELSE assumptions.expectedNewCustomersPerMonth
      custom == Opt(customOverride, "newCustomers")
      newCustomers == IF custom.k # "undefined" THEN custom ELSE grown
      churnedCustomers == JsMul(previousActiveCustomers, assumptions.churnRate)
      activeCustomers ==
        FloorAtZero(JsSub(JsAdd(previousActiveCustomers, newCustomers),
                          churnedCustomers))
  IN  [newCustomers |-> newCustomers,
       churnedCustomers |-> churnedCustomers,
       activeCustomers |-> activeCustomers]

calculateRevenue(activeCustomers, assumptions) ==
  LET baseMRR == JsMul(activeCustomers, assumptions.arpu)
      expansionRevenue == JsMul(baseMRR, assumptions.expansionRevenueRate)
      mrr == JsAdd(baseMRR, expansionRevenue)
  IN  [mrr |-> mrr, revenue |-> mrr]

\* only the items that start in this very month
HiredByExactly(item, monthIndex, delayMonths) ==
  item.monthOffset = JsSub(I(monthIndex), delayMonths)

\* the hiring delay left out
HiredByIgnoringDelay(item, monthIndex, delayMonths) ==
  JsLe(item.monthOffset, I(monthIndex))

\* (item) => item.monthOffset <= monthIndex - delayMonths
HiredBy(item, monthIndex, delayMonths) ==
  JsLe(item.monthOffset, JsSub(I(monthIndex), delayMonths))

\* a custom value of zero taken for a missing one
FixedCostsOrFalsy(customOverride, assumptions) ==
  JsOr(Opt(customOverride, "fixedCosts"), assumptions.fixedCostsPerMonth)

\* customOverride?.fixedCosts ?? assumptions.fixedCostsPerMonth
FixedCostsFor(customOverride, assumptions) ==
  Nullish(Opt(customOverride, "fixedCosts"), assumptions.fixedCostsPerMonth)

calculateCosts(revenue, monthIndex, hiringPlan, assumptions, overrides) ==
  LET grossMarginDecimal == JsDiv(assumptions.grossMarginPercent, I(100))
      cogs == JsMul(revenue, JsSub(I(1), grossMarginDecimal))
      grossProfit == JsSub(revenue, cogs)
      variableCosts == JsMul(revenue, assumptions.variableCostPercentOfRevenue)
      customOverride ==
        FindCustomOverride(Opt(overrides, "customMonthlyOverrides"),
                           I(monthIndex))
      fixedCosts == FixedCostsFor(customOverride, assumptions)
      delayMonths == Nullish(Opt(overrides, "hiringDelayMonths"), I(0))
      salaryMultiplier == Nullish(Opt(overrides, "salaryMultiplier"), I(1))
      Test(item) == HiredBy(item, monthIndex, delayMonths)
      hired == SelectSeq(hiringPlan, Test)
      salaryCosts ==
        SumSeq([i \in 1..Len(hired) |->
                  JsMul(JsMul(hired[i].count, hired[i].monthlySalaryPerHead),
                        salaryMultiplier)])
      totalOpex ==
        JsAdd(JsAdd(JsAdd(cogs, variableCosts), fixedCosts), salaryCosts)
  IN  [cogs |-> cogs, grossProfit |-> grossProfit,
       salaryCosts |-> salaryCosts, fixedCosts |-> fixedCosts,
       variableCosts |-> variableCosts, totalOpex |-> totalOpex]

\* without the test of the cash
calculateRunwayNoCashTest(currentCash, monthlyBurn) ==
  IF JsLe(monthlyBurn, I(0)) THEN Null
  ELSE JsDiv(currentCash, monthlyBurn)

\* the two early returns in the other order
calculateRunwayBurnFirst(currentCash, monthlyBurn) ==
  IF JsLe(monthlyBurn, I(0)) THEN Null
  ELSE IF JsLe(currentCash, I(0)) THEN I(0)
  ELSE JsDiv(currentCash, monthlyBurn)

\* the quotient upside down
calculateRunwayInverted(currentCash, monthlyBurn) ==
  IF JsLe(currentCash, I(0)) THEN I(0)
  ELSE IF JsLe(monthlyBurn, I(0)) THEN Null
  ELSE JsDiv(monthlyBurn, currentCash)

calculateRunway(currentCash, monthlyBurn) ==
  IF JsLe(currentCash, I(0)) THEN I(0)
  ELSE IF JsLe(monthlyBurn, I(0)) THEN Null
  ELSE JsDiv(currentCash, monthlyBurn)


(***************************************************************************)
(* index.ts: the scenario overlay, headcount and the summary               *)
(***************************************************************************)
\* the lower bound left out
Clamp01NoFloor(v) == MathMin(I(1), v)

\* Math.max(0, Math.min(1, v))
Clamp01(v) == MathMax(I(0), MathMin(I(1), v))

\* a multiplier that is absent taken as 0
DefaultMultiplierZero == I(0)

\* ?? 1: the multiplier when the override is absent
DefaultMultiplier == I(1)

\* an adjustment that is absent taken as 1
DefaultAdjustmentOne == I(1)

\* ?? 0: the adjustment when the override is absent
DefaultAdjustment == I(0)

applyScenarioOverrides(assumptions, overrides) ==
  IF ~Truthy(overrides) THEN assumptions
  ELSE [assumptions EXCEPT
          !.arpu =
            JsMul(@, Nullish(Get(overrides, "arpuMultiplier"), DefaultMultiplier)),
          !.churnRate =
            Clamp01(JsAdd(@, Nullish(Get(overrides, "churnRateAdjustment"),
                         DefaultAdjustment))),
          !.expansionRevenueRate =
            JsAdd(@, Nullish(Get(overrides, "expansionRevenueRateAdjustment"),
                         DefaultAdjustment)),
          !.grossMarginPercent =
            JsAdd(@, Nullish(Get(overrides, "grossMarginAdjustment"),
                         DefaultAdjustment)),
          !.fixedCostsPerMonth =
            JsMul(@, Nullish(Get(overrides, "fixedCostsMultiplier"),
                             DefaultMultiplier)),
          !.variableCostPercentOfRevenue =
            JsMul(@, Nullish(Get(overrides, "variableCostMultiplier"),
                             DefaultMultiplier))]

calculateHeadcount(monthIndex, hiringPlan, overrides) ==
  LET delayMonths == Nullish(Opt(overrides, "hiringDelayMonths"), I(0))
      Test(item) == HiredBy(item, monthIndex, delayMonths)
      hired == SelectSeq(hiringPlan, Test)
  IN  SumSeq([i \in 1..Len(hired) |-> hired[i].count])

\* .sort((a, b) => b.netBurn - a.netBurn): a stable sort, largest burn first
RECURSIVE InsertByBurn(_, _)
\* the comparison the other way round: smallest burn first
InsertIntoAscending(s, p) ==
  IF Len(s) = 0 THEN <<p>>
  ELSE IF JsGt(s[1].netBurn, p.netBurn) THEN <<p>> \o s
  ELSE <<s[1]>> \o InsertByBurn(Tail(s), p)

InsertInto(s, p) ==
  IF Len(s) = 0 THEN <<p>>
  ELSE IF JsLt(s[1].netBurn, p.netBurn) THEN <<p>> \o s
  ELSE <<s[1]>> \o InsertByBurn(Tail(s), p)

InsertByBurn(s, p) == Let2(InsertInto, s, p)

RECURSIVE SortByBurn(_)
SortFrom(s) ==
  IF Len(s) = 0 THEN <<>>
  ELSE InsertByBurn(SortByBurn(SubSeq(s, 1, Len(s) - 1)), s[Len(s)])

SortByBurn(s) == Let1(SortFrom, s)

\* Math.min(...values), values not empty
RECURSIVE MinOf(_)
MinFrom(s) ==
  IF Len(s) = 1 THEN ToNumber(s[1])
  ELSE MathMin(MinOf(SubSeq(s, 1, Len(s) - 1)), s[Len(s)])

MinOf(s) == Let1(MinFrom, s)

\* the mean taken over all the months
BurnMonthsAll(burnProjections, projs) == Len(projs)

\* burnProjections.length, the divisor of avgMonthlyBurn
BurnMonths(burnProjections, projs) == Len(burnProjections)

\* the last month out of cash
ZeroCashProjectionLast(zeroCash) == zeroCash[Len(zeroCash)]

\* projections.find((p) => p.endingCash <= 0): the first match
ZeroCashProjection(zeroCash) == zeroCash[1]

\* generateSummary for a sequence that is not empty (it throws on an empty one)
generateSummary(projs, assumptions) ==
  LET firstProjection == projs[1]
      lastProjection == projs[Len(projs)]
      Burns(p) == JsGt(p.netBurn, I(0))
      burnProjections == SortByBurn(SelectSeq(projs, Burns))
      peakBurnProjection ==
        IF Len(burnProjections) > 0 THEN burnProjections[1] ELSE lastProjection
      totalRevenue == SumSeq([i \in 1..Len(projs) |-> projs[i].revenue])
      totalBurn ==
        SumSeq([i \in 1..Len(projs) |-> MathMax(I(0), projs[i].netBurn)])
      avgMonthlyBurn ==
        IF Len(burnProjections) > 0
          THEN JsDiv(SumSeq([i \in 1..Len(burnProjections) |->
                               burnProjections[i].netBurn]),
                     I(BurnMonths(burnProjections, projs)))
          ELSE I(0)
      OutOfCash(p) == JsLe(p.endingCash, I(0))
      zeroCash == SelectSeq(projs, OutOfCash)
      HasRunway(p) == p.runwayMonths.k # "null"
      withRunway == SelectSeq(projs, HasRunway)
      validRunways == [i \in 1..Len(withRunway) |-> withRunway[i].runwayMonths]
      minRunway == IF Len(validRunways) > 0 THEN MinOf(validRunways) ELSE Null
      mrrGrowth ==
        IF JsGt(firstProjection.mrr, I(0))
          THEN JsMul(JsDiv(JsSub(lastProjection.mrr, firstProjection.mrr),
                           firstProjection.mrr),
                     I(100))
          ELSE I(0)
      avgMRR == JsDiv(SumSeq([i \in 1..Len(projs) |-> projs[i].mrr]),
                      I(Len(projs)))
      avgChurnRate == assumptions.churnRate
      ltv == IF JsGt(avgChurnRate, I(0)) THEN JsDiv(avgMRR, avgChurnRate)
             ELSE Null
  IN  [scenarioName |-> "BASE",
       startingMRR |-> firstProjection.mrr,
       endingMRR |-> lastProjection.mrr,
       mrrGrowthPercent |-> mrrGrowth,
       peakBurn |-> peakBurnProjection.netBurn,
       peakBurnMonth |-> peakBurnProjection.month,
       avgMonthlyBurn |-> avgMonthlyBurn,
       startingCash |-> firstProjection.startingCash,
       endingCash |-> lastProjection.endingCash,
       totalCashBurned |-> totalBurn,
       zeroCashMonth |->
         IF Len(zeroCash) > 0 THEN ZeroCashProjection(zeroCash).month ELSE Null,
       minRunway |-> minRunway,
       totalRevenue |-> totalRevenue,
       startingHeadcount |-> firstProjection.headcount,
       endingHeadcount |-> lastProjection.headcount,
       ltv |-> ltv,
       cacPaybackMonths |-> assumptions.paybackPeriodMonths]

(***************************************************************************)
(* runScenario as a state machine                                          *)
(***************************************************************************)
\* pc: where the caller of runScenario is: "idle" before the first call,
\*   "loop" inside the month loop, "returned" or "threw" after a call;
\* input: the argument of the call in progress (the last call);
\* effectiveAssumptions, currentCash, currentActiveCustomers, monthIndex,
\* projections: the locals of runScenario; customers, rev, costs, netBurn,
\* endingCash, runwayMonths, headcount: the constants of the loop body, as
\* the last iteration set them; summary: the summary returned;
\* kept: an output the caller has kept from an earlier call;
\* calls: the number of calls made so far;
\* sanity: the arguments and the result of a call of runSanityChecks;
\* store: the rows of the database; response: the last API response
VARIABLES pc, input, effectiveAssumptions, currentCash, currentActiveCustomers, monthIndex, projections, customers, rev, costs, netBurn, endingCash, runwayMonths, headcount, summary, kept, calls, sanity, store, response, requests, rows

body == <<customers, rev, costs, netBurn, endingCash, runwayMonths, headcount>>

engine == <<pc, input, effectiveAssumptions, currentCash, currentActiveCustomers, monthIndex, projections, body, summary, kept, calls>>

\* the requests to POST /api/projections/run under way and the stored
\* Projection rows of the scenario
runs == <<requests, rows>>

vars == <<engine, sanity, store, response, runs>>

(***************************************************************************)
(* The inputs of the calls                                                 *)
(***************************************************************************)
\* the longest horizon (assumptions.months) of a call
MaxMonths == 3

\* an object with no property
EmptyObject == [f \in {} |-> Undefined]

Company(cash, startMRR) ==
  [name |-> "Test Startup", stage |-> "SEED", sector |-> "SAAS",
   country |-> "US", currency |-> "USD",
   startingCash |-> cash, startingMRR |-> startMRR, currentHeadcount |-> I(5)]

Companies ==
  {Company(I(0), I(0)), Company(I(1000), I(1000)), Company(I(110000), I(1000))}

Assumptions(start, m, arpu, new, expansion, churn, fixed) ==
  [name |-> "Base Case", startMonth |-> start, months |-> I(m),
   pricingModel |-> "PER_SEAT", arpu |-> arpu,
   expectedNewCustomersPerMonth |-> new, expansionRevenueRate |-> expansion,
   churnRate |-> churn, cac |-> I(500), paybackPeriodMonths |-> I(12),
   grossMarginPercent |-> I(80), fixedCostsPerMonth |-> fixed,
   variableCostPercentOfRevenue |-> Q(1, 10)]

StartMonths == {[year |-> 2024, month |-> 1], [year |-> 2024, month |-> 11]}

AssumptionSets ==
  {Assumptions(start, m, arpu, new, Q(1, 2), churn, fixed) :
     start \in StartMonths, m \in 0..MaxMonths, arpu \in {I(0), I(100)},
     new \in {I(0), I(10)}, churn \in {I(0), Q(1, 2), I(1)},
     fixed \in {I(0), I(10000)}}

Hire(offset, role, count, salary, department) ==
  [monthOffset |-> I(offset), roleName |-> role, count |-> I(count),
   monthlySalaryPerHead |-> I(salary), department |-> department]

HiringPlans ==
  {<<>>,
   <<Hire(0, "Engineer", 3, 10000, "ENGINEERING"),
     Hire(2, "Sales Rep", 2, 8000, "SALES")>>,
   <<Hire(2, "Designer", 1, 5000, "PRODUCT"),
     Hire(1, "Engineer", 1, 6000, "ENGINEERING")>>}

OverrideSets ==
  {EmptyObject,
   [churnRateAdjustment |-> Q(1, 2)],
   [churnRateAdjustment |-> I(-2), arpuMultiplier |-> I(2)],
   [customMonthlyOverrides |->
      [arr |-> <<[monthOffset |-> I(1), newCustomers |-> I(-50)],
                 [monthOffset |-> I(0), fixedCosts |-> I(200000)]>>]],
   [customerGrowthMultiplier |-> I(2), hiringDelayMonths |-> I(1),
    salaryMultiplier |-> Q(3, 2)],
   [expansionRevenueRateAdjustment |-> Q(1, 4),
    grossMarginAdjustment |-> I(10), fixedCostsMultiplier |-> I(2),
    variableCostMultiplier |-> I(2)],
   [fixedCostsMultiplier |-> I(2), customerGrowthMultiplier |-> I(0),
    customMonthlyOverrides |->
      [arr |-> <<[monthOffset |-> I(1), fixedCosts |-> I(0)]>>]],
   [customMonthlyOverrides |->
      [arr |-> <<[monthOffset |-> I(1), newCustomers |-> I(5)],
                 [monthOffset |-> I(1), newCustomers |-> I(7),
                  fixedCosts |-> I(0)]>>]]}

\* the input of the README's example, its horizon cut to m months
ConcreteInput(m) ==
  [company |-> Company(I(500000), I(10000)),
   assumptions |->
     [Assumptions([year |-> 2024, month |-> 1], m, I(100), I(10), Q(1, 20),
                  Q(1, 20), I(15000)) EXCEPT !.months = I(m)],
   hiringPlan |->
     <<Hire(0, "Engineer", 3, 10000, "ENGINEERING"),
       Hire(6, "Sales Rep", 2, 8000, "SALES")>>]

\* inputs the request schemas reject and runScenario does not: negative
\* startingCash, with arpu = 0 or churnRate > 1
OutOfRangeInputs ==
  LET sets == {Assumptions([year |-> 2024, month |-> 11], m, arpu, I(10),
                           Q(1, 2), churn, I(10000)) :
                 m \in 0..MaxMonths, arpu \in {I(0), I(100)},
                 churn \in {Q(1, 2), Q(3, 2)}}
  IN  {[company |-> Company(I(-500), I(1000)), assumptions |-> a,
        hiringPlan |-> <<>>] : a \in sets}
      \cup
      {[company |-> Company(I(-500), I(1000)), assumptions |-> a,
        hiringPlan |-> <<>>, scenarioOverrides |-> EmptyObject] : a \in sets}

\* overrides at the edges: a costly month 0 that later months recover from,
\* adjustments that carry the rates past their ranges, and several custom
\* entries for one month
EdgeOverrideSets ==
  {[customMonthlyOverrides |->
      [arr |-> <<[monthOffset |-> I(0), fixedCosts |-> I(3000)]>>]],
   [grossMarginAdjustment |-> I(30),
    expansionRevenueRateAdjustment |-> I(1),
    variableCostMultiplier |-> I(20)],
   [customMonthlyOverrides |->
      [arr |-> <<[monthOffset |-> I(1), fixedCosts |-> I(0)],
                 [monthOffset |-> I(1), newCustomers |-> I(7),
                  fixedCosts |-> I(99)],
                 [monthOffset |-> I(2), newCustomers |-> I(3)]>>]]}

EdgeInputs ==
  {[company |-> Company(I(1000), I(1000)),
    assumptions |-> Assumptions([year |-> 2024, month |-> 11], m, I(100),
                                I(10), Q(1, 2), churn, fixed),
    hiringPlan |-> <<>>, scenarioOverrides |-> o] :
     m \in 1..MaxMonths, churn \in {I(0), Q(1, 2)},
     fixed \in {I(0), I(10000)}, o \in EdgeOverrideSets}

\* FinancialModelInput: scenarioOverrides is optional
Inputs ==
  {[company |-> c, assumptions |-> a, hiringPlan |-> h] :
     c \in Companies, a \in AssumptionSets, h \in HiringPlans}
  \cup
  {[company |-> c, assumptions |-> a, hiringPlan |-> h,
    scenarioOverrides |-> o] :
     c \in Companies, a \in AssumptionSets, h \in HiringPlans,
     o \in OverrideSets}
  \cup {ConcreteInput(m) : m \in 1..MaxMonths}
  \cup OutOfRangeInputs
  \cup EdgeInputs

(***************************************************************************)
(* The steps of a call                                                     *)
(***************************************************************************)
Nothing == [none |-> TRUE]

\* the simulation started from an empty account
InitialCashZero(inp) == I(0)

\* let currentCash = company.startingCash
InitialCash(inp) == inp.company.startingCash

\* let currentActiveCustomers = assumptions.startingMRR / assumptions.arpu || 0
\* (AssumptionInput has no property startingMRR: the read is undefined)
InitialActiveCustomers(inp) ==
  JsOr(JsDiv(Get(inp.assumptions, "startingMRR"), inp.assumptions.arpu), I(0))

\* one iteration too many
LoopConditionInclusive(index, assumptions) == JsLe(I(index), assumptions.months)

\* the loop left as soon as the cash is used up
LoopConditionWhileCash(index, assumptions) ==
  JsLt(I(index), assumptions.months) /\ JsGt(currentCash, I(0))

\* monthIndex < assumptions.months
LoopCondition(index, assumptions) == JsLt(I(index), assumptions.months)

\* an array shared by all calls, never emptied
NewProjectionsShared == projections

\* const projections: MonthlyProjection[] = []
NewProjections == <<>>

\* runScenario(inp), up to the loop
Call(inp) ==
  /\ pc \in {"idle", "returned", "threw"}
  /\ input' = inp
  /\ projections' = NewProjections
  /\ effectiveAssumptions' =
       applyScenarioOverrides(inp.assumptions, Get(inp, "scenarioOverrides"))
  /\ currentCash' = InitialCash(inp)
  /\ currentActiveCustomers' = InitialActiveCustomers(inp)
  /\ monthIndex' = 0
  /\ summary' = Nothing
  /\ pc' = "loop"
  /\ customers' = Nothing
  /\ rev' = Nothing
  /\ costs' = Nothing
  /\ netBurn' = Nothing
  /\ endingCash' = Nothing
  /\ runwayMonths' = Nothing
  /\ headcount' = Nothing
  /\ calls' = calls + 1
  /\ UNCHANGED <<kept, sanity, store, response, runs>>

\* one iteration of the month loop; the constants of the loop body are the
\* variables customers, rev, costs, netBurn, endingCash, runwayMonths, headcount
MonthStep ==
  /\ pc = "loop"
  /\ LoopCondition(monthIndex, input.assumptions)
  /\ customers' =
       calculateActiveCustomers(currentActiveCustomers, effectiveAssumptions,
                                monthIndex, Get(input, "scenarioOverrides"))
  /\ rev' = calculateRevenue(customers'.activeCustomers, effectiveAssumptions)
  /\ costs' =
       calculateCosts(rev'.revenue, monthIndex, input.hiringPlan,
                      effectiveAssumptions, Get(input, "scenarioOverrides"))
  /\ netBurn' = JsSub(costs'.totalOpex, rev'.revenue)
  /\ endingCash' = JsSub(currentCash, netBurn')
  /\ runwayMonths' = calculateRunway(endingCash', netBurn')
  /\ headcount' =
       calculateHeadcount(monthIndex, input.hiringPlan,
                          Get(input, "scenarioOverrides"))
  /\ projections' =
       Append(projections,
              [monthIndex |-> monthIndex,
               month |-> addMonths(input.assumptions.startMonth, monthIndex),
               startingCash |-> currentCash, endingCash |-> endingCash',
               netBurn |-> netBurn', runwayMonths |-> runwayMonths',
               newCustomers |-> customers'.newCustomers,
               churnedCustomers |-> customers'.churnedCustomers,
               activeCustomers |-> customers'.activeCustomers,
               mrr |-> rev'.mrr, revenue |-> rev'.revenue,
               cogs |-> costs'.cogs, grossProfit |-> costs'.grossProfit,
               salaryCosts |-> costs'.salaryCosts,
               fixedCosts |-> costs'.fixedCosts,
               variableCosts |-> costs'.variableCosts,
               totalOpex |-> costs'.totalOpex, headcount |-> headcount'])
  /\ currentCash' = endingCash'
  /\ currentActiveCustomers' = customers'.activeCustomers
  /\ monthIndex' = monthIndex + 1
  /\ UNCHANGED <<pc, input, effectiveAssumptions, summary, kept, calls>>
  /\ UNCHANGED <<sanity, store, response, runs>>

\* the summary made from the effective assumptions
SummaryAssumptionsEffective(inp, effective) == effective

\* generateSummary(projections, assumptions): the base assumptions
SummaryAssumptions(inp, effective) == inp.assumptions

\* a summary refused unless there are two records
SummaryThrowsBelowTwo(projs) == Len(projs) < 2

\* if (projections.length === 0) throw new Error(...)
SummaryThrows(projs) == Len(projs) = 0

\* the loop ends: generateSummary throws on an empty sequence, else the
\* projections and the summary are returned
Finish ==
  /\ pc = "loop"
  /\ ~LoopCondition(monthIndex, input.assumptions)
  /\ IF SummaryThrows(projections)
       THEN pc' = "threw" /\ UNCHANGED summary
       ELSE /\ summary' =
                 generateSummary(projections,
                                 SummaryAssumptions(input, effectiveAssumptions))
            /\ pc' = "returned"
  /\ UNCHANGED <<input, effectiveAssumptions, currentCash, currentActiveCustomers, monthIndex, projections, body, kept, calls>>
  /\ UNCHANGED <<sanity, store, response, runs>>

\* the caller keeps the output of a call that returned
Keep ==
  /\ pc = "returned"
  /\ kept = Nothing
  /\ kept' = [input |-> input, projections |-> projections,
              summary |-> summary, call |-> calls]
  /\ UNCHANGED <<pc, input, effectiveAssumptions, currentCash, currentActiveCustomers, monthIndex, projections, body, summary, calls>>
  /\ UNCHANGED <<sanity, store, response, runs>>

\* the database before any request: the workspace has no company yet
EmptyStore ==
  [companies |-> 0, companyEdits |-> 0, assumptionSets |-> 0, scenarios |-> 0,
   defaultScenario |-> 0, projections |-> 0, auditLog |-> 0]

\* the most requests to POST /api/projections/run under way at once
MaxRequests == 2

\* a request not made yet
NoRequest == [pc |-> "none", user |-> "nobody", status |-> 0]

Init ==
  /\ pc = "idle"
  /\ input = Nothing
  /\ effectiveAssumptions = Nothing
  /\ currentCash = Nothing
  /\ currentActiveCustomers = Nothing
  /\ monthIndex = 0
  /\ projections = <<>>
  /\ customers = Nothing
  /\ rev = Nothing
  /\ costs = Nothing
  /\ netBurn = Nothing
  /\ endingCash = Nothing
  /\ runwayMonths = Nothing
  /\ headcount = Nothing
  /\ summary = Nothing
  /\ kept = Nothing
  /\ calls = 0
  /\ sanity = Nothing
  /\ store = EmptyStore
  /\ response = Nothing
  /\ requests = [r \in 1..MaxRequests |-> NoRequest]
  /\ rows = {}

\* the first call of a caller
Run == pc = "idle" /\ \E inp \in Inputs : Call(inp)

Next == Run \/ MonthStep \/ Finish

\* one call of runScenario, on any of Inputs
Spec == Init /\ [][Next]_vars

\* the inputs of a caller that calls again and again
CallInputs ==
  LET sets == {Assumptions([year |-> 2024, month |-> 11], m, I(100), I(10),
                           Q(1, 2), churn, I(10000)) :
                 m \in {1, MaxMonths}, churn \in {I(0), Q(1, 2), I(1)}}
      plans == {<<>>, <<Hire(2, "Designer", 1, 5000, "PRODUCT"),
                        Hire(1, "Engineer", 1, 6000, "ENGINEERING")>>}
  IN  {[company |-> Company(I(1000), I(1000)), assumptions |-> a,
        hiringPlan |-> h] : a \in sets, h \in plans}
      \cup
      {[company |-> Company(I(1000), I(1000)), assumptions |-> a,
        hiringPlan |-> h, scenarioOverrides |-> o] :
         a \in sets, h \in plans,
         o \in {EmptyObject, [churnRateAdjustment |-> Q(1, 2)]}}

\* the most calls a caller makes
MaxCalls == 3

\* a call after any earlier call
RunAgain == calls < MaxCalls /\ \E inp \in CallInputs : Call(inp)

NextCalls == RunAgain \/ MonthStep \/ Finish \/ Keep

\* any number of calls of runScenario, one after the other
SpecCalls == Init /\ [][NextCalls]_vars

(***************************************************************************)
(* Properties of one call (Spec)                                           *)
(***************************************************************************)
Months == 1..Len(projections)
Overrides == Get(input, "scenarioOverrides")
Returned == pc = "returned"

\* C1: a call with months >= 1 returns exactly assumptions.months records,
\* and the record at position i (0-based) has monthIndex = i; while the loop
\* runs, the records so far are those of the months 0..monthIndex-1.
C1_OneRecordPerMonth ==
  /\ pc \in {"loop", "returned"} =>
       /\ Len(projections) = monthIndex
       /\ \A i \in Months : projections[i].monthIndex = i - 1
  /\ Returned => I(Len(projections)) = input.assumptions.months

C1_Witness == Returned /\ Len(projections) = MaxMonths /\ MaxMonths >= 2

\* the starting customer count the spec describes
DerivedCustomers(inp) ==
  IF JsGt(inp.assumptions.arpu, I(0))
    THEN JsDiv(inp.company.startingMRR, inp.assumptions.arpu)
    ELSE I(0)

\* C2: the active-customer count fed into month 0 is
\* company.startingMRR / assumptions.arpu when the base arpu > 0, else 0.
C2_StartingCustomers ==
  (pc = "loop" /\ monthIndex = 0) =>
    currentActiveCustomers = DerivedCustomers(input)

IsConcreteScenario ==
  /\ pc \in {"loop", "returned"}
  /\ input.company.startingMRR = I(10000)
  /\ input.assumptions.arpu = I(100)
  /\ input.assumptions.expectedNewCustomersPerMonth = I(10)
  /\ input.assumptions.churnRate = Q(1, 20)
  /\ input.assumptions.expansionRevenueRate = Q(1, 20)
  /\ IsUndefined(Overrides)

\* C3: in the concrete scenario (startingMRR 10000, arpu 100, 10 new
\* customers a month, churn 0.05, expansion 0.05, no overrides) the month-0
\* record has mrr = 10500.
C3_ConcreteMonth0Mrr ==
  (IsConcreteScenario /\ Len(projections) >= 1) =>
    projections[1].mrr = I(10500)

\* C4: activeCustomers >= 0 in every monthly record, whatever the overrides.
C4_ActiveNonNegative ==
  \A i \in Months : JsLe(I(0), projections[i].activeCustomers)

\* a negative custom newCustomers drove the sum below zero and it was floored
C4_Witness ==
  \E i \in Months :
    /\ i >= 2
    /\ JsLt(projections[i].newCustomers, I(0))
    /\ JsGt(projections[i - 1].activeCustomers, I(0))
    /\ projections[i].activeCustomers = I(0)

\* C5 as stated: in every monthly record, netBurn <= 0 implies a null
\* runwayMonths, and endingCash <= 0 implies runwayMonths = 0.
C5_RunwaySentinel ==
  \A i \in Months :
    /\ JsLe(projections[i].netBurn, I(0)) => projections[i].runwayMonths = Null
    /\ JsLe(projections[i].endingCash, I(0)) => projections[i].runwayMonths = I(0)

\* C5 amended: in every monthly record, endingCash <= 0 implies
\* runwayMonths = 0, and netBurn <= 0 with endingCash > 0 implies a null
\* runwayMonths: the cash test comes first.
C5_RunwaySentinelCashFirst ==
  \A i \in Months :
    /\ JsLe(projections[i].endingCash, I(0)) => projections[i].runwayMonths = I(0)
    /\ (JsLe(projections[i].netBurn, I(0)) /\ JsGt(projections[i].endingCash, I(0)))
         => projections[i].runwayMonths = Null

\* a profitable month that ends without cash: its runway is 0, not null
C5_Witness ==
  \E i \in Months :
    /\ JsLt(projections[i].netBurn, I(0))
    /\ JsLt(projections[i].endingCash, I(0))
    /\ projections[i].runwayMonths = I(0)

\* C6: with endingCash > 0 and netBurn > 0 the runway of a record is their
\* quotient (runway x netBurn = endingCash; 100000 and 10000 give 10), and a
\* non-null runway of a month with positive ending cash is positive.
C6_RunwayQuotient ==
  \A i \in Months :
    LET p == projections[i]
    IN  /\ (JsGt(p.endingCash, I(0)) /\ JsGt(p.netBurn, I(0))) =>
             /\ IsNum(p.runwayMonths)
             /\ JsMul(p.runwayMonths, p.netBurn) = p.endingCash
        /\ (p.endingCash = I(100000) /\ p.netBurn = I(10000)) =>
             p.runwayMonths = I(10)
        /\ (JsGt(p.endingCash, I(0)) /\ p.runwayMonths # Null) =>
             JsGt(p.runwayMonths, I(0))

C6_Witness ==
  \E i \in Months :
    /\ projections[i].endingCash = I(100000)
    /\ projections[i].netBurn = I(10000)
    /\ projections[i].runwayMonths = I(10)

\* C8: with hiringDelayMonths absent (and a plan with offsets >= 0 and
\* counts >= 1) the headcount of the records never decreases from a month
\* to the next.
C8_HeadcountMonotonic ==
  IsUndefined(Opt(Overrides, "hiringDelayMonths")) =>
    \A i \in Months :
      i >= 2 => JsLe(projections[i - 1].headcount, projections[i].headcount)

\* the headcount grows twice, from a plan that is not sorted by month
C8_Witness ==
  /\ IsUndefined(Opt(Overrides, "hiringDelayMonths"))
  /\ Len(projections) >= 3
  /\ JsLt(projections[1].headcount, projections[2].headcount)
  /\ JsLt(projections[2].headcount, projections[3].headcount)
  /\ JsGt(input.hiringPlan[1].monthOffset, input.hiringPlan[2].monthOffset)

SummaryNumbers ==
  {summary.startingMRR, summary.endingMRR, summary.mrrGrowthPercent,
   summary.peakBurn, summary.avgMonthlyBurn, summary.startingCash,
   summary.endingCash, summary.totalCashBurned, summary.minRunway,
   summary.totalRevenue, summary.startingHeadcount, summary.endingHeadcount,
   summary.ltv, summary.cacPaybackMonths}

\* C10: the summary's ltv is the mean mrr of the records divided by the base
\* churnRate (ltv x churnRate x records = sum of mrr), and null exactly when
\* the base churnRate is 0, whatever the churnRateAdjustment; no number of
\* the summary is infinite.
C10_LtvFromBaseChurn ==
  Returned =>
    /\ summary.ltv = Null <=> input.assumptions.churnRate = I(0)
    /\ summary.ltv # Null =>
         JsMul(JsMul(summary.ltv, input.assumptions.churnRate),
               I(Len(projections)))
           = SumSeq([i \in Months |-> projections[i].mrr])
    /\ \A v \in SummaryNumbers : v.k \in {"num", "null"}

\* an adjusted churn rate that differs from the base rate, and a positive ltv
C10_Witness ==
  /\ Returned
  /\ ~IsUndefined(Opt(Overrides, "churnRateAdjustment"))
  /\ effectiveAssumptions.churnRate # input.assumptions.churnRate
  /\ summary.ltv # Null
  /\ JsGt(summary.ltv, I(0))

(***************************************************************************)
(* Properties of several calls (SpecCalls)                                 *)
(***************************************************************************)
HasKept == kept # Nothing

\* the two inputs differ only in scenarioOverrides: one has the object with
\* no property, the other has no scenarioOverrides
EmptyVersusOmitted(a, b) ==
  /\ a.company = b.company
  /\ a.assumptions = b.assumptions
  /\ a.hiringPlan = b.hiringPlan
  /\ \/ IsUndefined(Get(a, "scenarioOverrides")) /\ Get(b, "scenarioOverrides") = EmptyObject
     \/ IsUndefined(Get(b, "scenarioOverrides")) /\ Get(a, "scenarioOverrides") = EmptyObject

\* C7: a call with scenarioOverrides = {} returns the same projections,
\* month by month and field by field, as the call with scenarioOverrides
\* omitted.
C7_EmptyOverridesAreNeutral ==
  (Returned /\ HasKept /\ EmptyVersusOmitted(kept.input, input)) =>
    projections = kept.projections

C7_Witness ==
  /\ Returned
  /\ HasKept
  /\ kept.call < calls
  /\ EmptyVersusOmitted(kept.input, input)
  /\ Len(projections) = MaxMonths
  /\ JsGt(projections[1].mrr, I(0))

\* C9: two calls with the same arguments, with any calls in between, return
\* the same projections and the same summary.
C9_Deterministic ==
  (Returned /\ HasKept /\ kept.input = input) =>
    /\ projections = kept.projections
    /\ summary = kept.summary

\* the kept output is of the call before the previous call
C9_Witness ==
  /\ Returned
  /\ HasKept
  /\ kept.input = input
  /\ kept.call + 2 <= calls
  /\ Len(projections) = MaxMonths
  /\ summary.ltv # Null

(***************************************************************************)
(* Custom monthly values (Spec)                                            *)
(***************************************************************************)
\* the entries of customMonthlyOverrides, in their order
CustomEntries ==
  LET list == Opt(Overrides, "customMonthlyOverrides")
  IN  IF IsUndefined(list) THEN <<>> ELSE list.arr

\* the positions of the entries for month k that have the property field
EntriesWith(k, field) ==
  {n \in 1..Len(CustomEntries) :
     /\ CustomEntries[n].monthOffset = I(k)
     /\ field \in DOMAIN CustomEntries[n]}

\* the positions of the entries for month k
EntriesFor(k) ==
  {n \in 1..Len(CustomEntries) : CustomEntries[n].monthOffset = I(k)}

First(positions) == CHOOSE n \in positions : \A m \in positions : n <= m

\* fixedCostsPerMonth x fixedCostsMultiplier, the multiplier 1 by default
MultipliedFixedCosts ==
  JsMul(input.assumptions.fixedCostsPerMonth,
        Nullish(Opt(Overrides, "fixedCostsMultiplier"), I(1)))

\* C11 as stated: an entry {monthOffset: k, fixedCosts: v} makes the month-k
\* record's fixedCosts exactly v, for every v including 0; every month
\* without such an entry has fixedCostsPerMonth x fixedCostsMultiplier.
C11_CustomFixedCosts ==
  \A i \in Months :
    /\ \A n \in EntriesWith(i - 1, "fixedCosts") :
         projections[i].fixedCosts = CustomEntries[n].fixedCosts
    /\ EntriesWith(i - 1, "fixedCosts") = {} =>
         projections[i].fixedCosts = MultipliedFixedCosts

\* C11: when the first entry of customMonthlyOverrides with monthOffset k
\* has fixedCosts v, the month-k record's fixedCosts is exactly v, for every
\* v including 0, whatever fixedCostsPerMonth and fixedCostsMultiplier are;
\* in every other month fixedCosts is fixedCostsPerMonth x
\* fixedCostsMultiplier (1 by default).
C11_FirstCustomFixedCosts ==
  \A i \in Months :
    IF /\ EntriesFor(i - 1) # {}
       /\ "fixedCosts" \in DOMAIN CustomEntries[First(EntriesFor(i - 1))]
      THEN projections[i].fixedCosts =
             CustomEntries[First(EntriesFor(i - 1))].fixedCosts
      ELSE projections[i].fixedCosts = MultipliedFixedCosts

\* a custom value of 0 replaced base fixed costs of 10000 doubled by the
\* multiplier, and the month before it has the doubled base
C11_Witness ==
  /\ Len(projections) >= 2
  /\ EntriesFor(1) # {}
  /\ Get(CustomEntries[First(EntriesFor(1))], "fixedCosts") = I(0)
  /\ projections[2].fixedCosts = I(0)
  /\ Opt(Overrides, "fixedCostsMultiplier") = I(2)
  /\ projections[1].fixedCosts = I(20000)

\* expectedNewCustomersPerMonth x customerGrowthMultiplier, the multiplier 1
\* only when it is absent
MultipliedNewCustomers ==
  JsMul(input.assumptions.expectedNewCustomersPerMonth,
        Nullish(Opt(Overrides, "customerGrowthMultiplier"), I(1)))

\* C12: newCustomers of month m is the newCustomers of the
\* customMonthlyOverrides entry for m when one specifies it, otherwise
\* expectedNewCustomersPerMonth x customerGrowthMultiplier for every numeric
\* multiplier supplied, the multiplier being 1 only when absent.
C12_NewCustomers ==
  \A i \in Months :
    IF EntriesWith(i - 1, "newCustomers") # {}
      THEN \E n \in EntriesWith(i - 1, "newCustomers") :
             projections[i].newCustomers = CustomEntries[n].newCustomers
      ELSE projections[i].newCustomers = MultipliedNewCustomers

(***************************************************************************)
(* The loop runs to the horizon (Spec)                                     *)
(***************************************************************************)
\* C13: the simulation never ends early: a month whose endingCash <= 0 is
\* followed by a record for every remaining month, each starting from the
\* balance the month before it ended with, negative or not; the loop makes
\* at most assumptions.months iterations and has made exactly that many
\* when the call ends.
C13_NoEarlyTermination ==
  /\ \A i \in Months :
       i >= 2 => projections[i].startingCash = projections[i - 1].endingCash
  /\ pc = "loop" => JsLe(I(monthIndex), MathMax(I(0), input.assumptions.months))
  /\ pc \in {"returned", "threw"} =>
       /\ I(monthIndex) = MathMax(I(0), input.assumptions.months)
       /\ Len(projections) = monthIndex

\* the cash was used up in month 0 and the call returned the whole horizon
C13_Witness ==
  /\ Returned
  /\ Len(projections) = MaxMonths
  /\ MaxMonths >= 2
  /\ JsLt(projections[1].endingCash, I(0))
  /\ JsLt(projections[MaxMonths].endingCash, projections[1].endingCash)

(***************************************************************************)
(* Errors (Spec)                                                           *)
(***************************************************************************)
\* C14: a call ends with an error only when it made no record
\* (assumptions.months < 1); with months >= 1 it returns projections and a
\* summary for every input, the out-of-range ones (negative startingCash,
\* churnRate > 1, arpu = 0) included.
C14_ErrorOnlyWhenEmpty ==
  /\ pc = "threw" =>
       Len(projections) = 0 /\ JsLt(input.assumptions.months, I(1))
  /\ (pc = "loop" /\ ~LoopCondition(monthIndex, input.assumptions)
        /\ JsLe(I(1), input.assumptions.months)) =>
       ~SummaryThrows(projections)
  /\ Returned =>
       /\ JsLe(I(1), input.assumptions.months)
       /\ Len(projections) >= 1
       /\ summary # Nothing

\* a call with negative startingCash, churnRate > 1 and arpu = 0 returned
C14_Witness ==
  /\ Returned
  /\ JsLt(input.company.startingCash, I(0))
  /\ JsGt(input.assumptions.churnRate, I(1))
  /\ input.assumptions.arpu = I(0)
  /\ Len(projections) = MaxMonths
  /\ summary # Nothing

(***************************************************************************)
(* The overlay (Spec)                                                      *)
(***************************************************************************)
\* the assumption fields no override is about
PlainFields ==
  {"name", "startMonth", "months", "pricingModel",
   "expectedNewCustomersPerMonth", "cac", "paybackPeriodMonths"}

\* the assumption fields an override is about, each with its override
OverriddenFields ==
  {<<"arpu", "arpuMultiplier">>,
   <<"churnRate", "churnRateAdjustment">>,
   <<"expansionRevenueRate", "expansionRevenueRateAdjustment">>,
   <<"grossMarginPercent", "grossMarginAdjustment">>,
   <<"fixedCostsPerMonth", "fixedCostsMultiplier">>,
   <<"variableCostPercentOfRevenue", "variableCostMultiplier">>}

\* the fields of pairs that have no matching override are the same in the
\* effective assumptions as in the base assumptions, and so are the plain ones
PassThrough(pairs) ==
  /\ \A f \in PlainFields : effectiveAssumptions[f] = input.assumptions[f]
  /\ \A pair \in pairs :
       IsUndefined(Opt(Overrides, pair[2])) =>
         effectiveAssumptions[pair[1]] = input.assumptions[pair[1]]

\* no step of a call after its start changes the arguments or the
\* effective assumptions
ArgumentsKept ==
  pc = "loop" =>
    /\ input' = input
    /\ effectiveAssumptions' = effectiveAssumptions

\* C15 as stated: the call leaves its arguments as they were, and every
\* assumption field with no matching override has the same value in the
\* effective assumptions as in the base assumptions.
C15_OverlayKeepsInputs ==
  /\ [][ArgumentsKept]_vars
  /\ [](pc # "idle" => PassThrough(OverriddenFields))

\* C15: the call leaves its arguments (assumptions, company, hiringPlan,
\* scenarioOverrides) as they were; every assumption field with no matching
\* override has the same value in the effective assumptions as in the base
\* assumptions, except churnRate, which with an overrides object and no
\* churnRateAdjustment is the base churnRate clamped into [0,1] (the same
\* value when the base churnRate is in [0,1]).
C15_OverlayKeepsInputsClamped ==
  /\ [][ArgumentsKept]_vars
  /\ [](pc # "idle" =>
          /\ PassThrough(OverriddenFields \ {<<"churnRate", "churnRateAdjustment">>})
          /\ IsUndefined(Opt(Overrides, "churnRateAdjustment")) =>
               effectiveAssumptions.churnRate =
                 IF IsUndefined(Overrides) THEN input.assumptions.churnRate
                 ELSE IF JsLt(input.assumptions.churnRate, I(0)) THEN I(0)
                 ELSE IF JsGt(input.assumptions.churnRate, I(1)) THEN I(1)
                 ELSE input.assumptions.churnRate)

\* a call with some overrides and not others returned: arpu is doubled, the
\* other fields are those of the base assumptions
C15_Witness ==
  /\ Returned
  /\ Opt(Overrides, "arpuMultiplier") = I(2)
  /\ IsUndefined(Opt(Overrides, "fixedCostsMultiplier"))
  /\ effectiveAssumptions.arpu = I(200)
  /\ effectiveAssumptions.fixedCostsPerMonth = I(10000)
  /\ input.assumptions.arpu = I(100)
  /\ Len(projections) = MaxMonths

\* base churnRate + churnRateAdjustment (0 when absent), clamped into [0,1]
ClampedChurn ==
  LET sum == JsAdd(input.assumptions.churnRate,
                   Nullish(Opt(Overrides, "churnRateAdjustment"), I(0)))
  IN  IF JsLt(sum, I(0)) THEN I(0) ELSE IF JsGt(sum, I(1)) THEN I(1) ELSE sum

\* C16: with an overrides object, whatever the churnRateAdjustment, the
\* effective churnRate is base churnRate + churnRateAdjustment clamped into
\* [0,1]; it lies in [0,1], and it is the rate the month loop uses: every
\* record's churnedCustomers is the customers the month started with times
\* that rate.
C16_ChurnClamped ==
  (pc # "idle" /\ ~IsUndefined(Overrides)) =>
    /\ effectiveAssumptions.churnRate = ClampedChurn
    /\ JsLe(I(0), effectiveAssumptions.churnRate)
    /\ JsLe(effectiveAssumptions.churnRate, I(1))
    /\ \A i \in Months :
         projections[i].churnedCustomers =
           JsMul(IF i = 1 THEN InitialActiveCustomers(input)
                 ELSE projections[i - 1].activeCustomers,
                 ClampedChurn)

\* an adjustment of -2 brought the rate to 0 and no customer was lost in a
\* month that started with customers
C16_Witness ==
  /\ Returned
  /\ Opt(Overrides, "churnRateAdjustment") = I(-2)
  /\ JsGt(input.assumptions.churnRate, I(0))
  /\ effectiveAssumptions.churnRate = I(0)
  /\ Len(projections) >= 2
  /\ JsGt(projections[1].activeCustomers, I(0))
  /\ projections[2].churnedCustomers = I(0)

(***************************************************************************)
(* The summary (Spec)                                                      *)
(***************************************************************************)
\* the months with a positive netBurn
Burning == {i \in Months : JsGt(projections[i].netBurn, I(0))}

\* C20: peakBurn and peakBurnMonth are the netBurn and the month of a
\* record whose netBurn is the largest among the records with netBurn > 0;
\* when no record has netBurn > 0 they are those of the last record, and
\* peakBurn <= 0.
C20_PeakBurn ==
  Returned =>
    IF Burning # {}
      THEN \E i \in Burning :
             /\ summary.peakBurn = projections[i].netBurn
             /\ summary.peakBurnMonth = projections[i].month
             /\ \A j \in Burning :
                  JsLe(projections[j].netBurn, projections[i].netBurn)
      ELSE /\ summary.peakBurn = projections[Len(projections)].netBurn
           /\ summary.peakBurnMonth = projections[Len(projections)].month
           /\ JsLe(summary.peakBurn, I(0))

\* the largest burn is in a month after a smaller burn and before the last
\* month, whose netBurn is smaller
C20_Witness ==
  /\ Returned
  /\ \E i, j \in Burning :
       /\ i < j
       /\ JsLt(projections[i].netBurn, projections[j].netBurn)
       /\ summary.peakBurn = projections[j].netBurn
       /\ summary.peakBurnMonth = projections[j].month
       /\ j < Len(projections)
       /\ JsLt(projections[Len(projections)].netBurn, projections[j].netBurn)

(***************************************************************************)
(* sanityCheck.ts: runSanityChecks                                         *)
(***************************************************************************)
\* calculateLTV(arpu, churnRate)
calculateLTV(arpu, churnRate) ==
  IF churnRate = I(0) THEN Inf(1) ELSE JsDiv(arpu, churnRate)

\* calculateLTVtoCAC(ltv, cac)
calculateLTVtoCAC(ltv, cac) ==
  IF cac = I(0) THEN Inf(1) ELSE JsDiv(ltv, cac)

\* a SanityWarning: its severity and field (the texts are left out)
Warning(severity, field) == [severity |-> severity, field |-> field]

IsHigh(w) == w.severity = "high"

\* passed only when there is no warning at all
PassedWhenNoWarning(warnings) == Len(warnings) = 0

\* warnings.filter((w) => w.severity === "high").length === 0
Passed(warnings) == Len(SelectSeq(warnings, IsHigh)) = 0

\* the thresholds taken inclusively
RunwaySeverityInclusive(estimatedRunway) ==
  IF JsLe(estimatedRunway, I(6)) THEN "high"
  ELSE IF JsLe(estimatedRunway, I(12)) THEN "medium"
  ELSE "none"

\* if (estimatedRunway < 6) high else if (estimatedRunway < 12) medium
RunwaySeverity(estimatedRunway) ==
  IF JsLt(estimatedRunway, I(6)) THEN "high"
  ELSE IF JsLt(estimatedRunway, I(12)) THEN "medium"
  ELSE "none"

\* the ratio checked whatever the cac
RatioCheckedAnyCac(assumptions) == JsGt(assumptions.churnRate, I(0))

\* if (assumptions.cac > 0 && assumptions.churnRate > 0)
RatioChecked(assumptions) ==
  JsGt(assumptions.cac, I(0)) /\ JsGt(assumptions.churnRate, I(0))

runSanityChecks(company, assumptions) ==
  LET churn ==
        IF JsLt(assumptions.churnRate, I(0)) \/ JsGt(assumptions.churnRate, I(1))
          THEN <<Warning("high", "churnRate")>>
        ELSE IF JsGt(assumptions.churnRate, Q(3, 20))
          THEN <<Warning("medium", "churnRate")>>
        ELSE <<>>
      arpu ==
        IF JsLe(assumptions.arpu, I(0)) THEN <<Warning("high", "arpu")>>
        ELSE IF JsLt(assumptions.arpu, I(10)) THEN <<Warning("low", "arpu")>>
        ELSE <<>>
      cac ==
        IF JsLe(assumptions.cac, I(0))
           /\ JsGt(assumptions.paybackPeriodMonths, I(0))
          THEN <<Warning("medium", "cac")>>
        ELSE <<>>
      ltv == calculateLTV(assumptions.arpu, assumptions.churnRate)
      ltvToCac == calculateLTVtoCAC(ltv, assumptions.cac)
      ratio ==
        IF RatioChecked(assumptions) /\ JsLt(ltvToCac, I(3))
          THEN <<Warning("high", "cac")>>
        ELSE <<>>
      payback ==
        IF JsGt(assumptions.paybackPeriodMonths, I(24))
          THEN <<Warning("medium", "paybackPeriodMonths")>>
        ELSE <<>>
      margin ==
        IF JsLt(assumptions.grossMarginPercent, I(0))
           \/ JsGt(assumptions.grossMarginPercent, I(100))
          THEN <<Warning("high", "grossMarginPercent")>>
        ELSE IF JsLt(assumptions.grossMarginPercent, I(50))
          THEN <<Warning("medium", "grossMarginPercent")>>
        ELSE <<>>
      estimatedMonthlyBurn ==
        JsAdd(assumptions.fixedCostsPerMonth,
              JsMul(assumptions.expectedNewCustomersPerMonth, assumptions.cac))
      estimatedRunway == JsDiv(company.startingCash, estimatedMonthlyBurn)
      runway ==
        IF RunwaySeverity(estimatedRunway) = "none" THEN <<>>
        ELSE <<Warning(RunwaySeverity(estimatedRunway), "startingCash")>>
      growth ==
        IF JsLt(assumptions.expectedNewCustomersPerMonth, I(0))
          THEN <<Warning("high", "expectedNewCustomersPerMonth")>>
        ELSE <<>>
      expansion ==
        IF JsLt(assumptions.expansionRevenueRate, I(0))
           \/ JsGt(assumptions.expansionRevenueRate, I(1))
          THEN <<Warning("medium", "expansionRevenueRate")>>
        ELSE <<>>
      warnings ==
        churn \o arpu \o cac \o ratio \o payback \o margin \o runway
          \o growth \o expansion
  IN  [passed |-> Passed(warnings), warnings |-> warnings]

\* the companies and assumptions runSanityChecks is called with: cash of 0,
\* of 5, 6, 11, 12 and 50 months of a burn of 1000, and assumptions in and
\* out of the ranges the checks test
SanityCompanies ==
  {Company(I(cash), I(0)) : cash \in {0, 5000, 6000, 11000, 12000, 50000}}

SanityAssumptions ==
  {[Assumptions([year |-> 2024, month |-> 1], MaxMonths, arpu, new, expansion,
                churn, fixed)
      EXCEPT !.cac = cac, !.paybackPeriodMonths = payback,
             !.grossMarginPercent = margin] :
     arpu \in {I(0), I(5), I(100)}, new \in {I(-1), I(0), I(1)},
     expansion \in {Q(1, 2), I(2)}, churn \in {I(0), Q(1, 10), Q(1, 5), Q(3, 2)},
     fixed \in {I(0), I(1000)}, cac \in {I(-100), I(0), I(500)},
     payback \in {I(12), I(30)}, margin \in {I(-5), I(40), I(80)}}

\* a call of runSanityChecks
CheckSanity ==
  /\ sanity = Nothing
  /\ \E company \in SanityCompanies, assumptions \in SanityAssumptions :
       sanity' = [company |-> company, assumptions |-> assumptions,
                  result |-> runSanityChecks(company, assumptions)]
  /\ UNCHANGED <<engine, store, response, runs>>

NextSanity == CheckSanity

\* one call of runSanityChecks
SpecSanity == Init /\ [][NextSanity]_vars

\* the warnings about startingCash of the call made
CashWarnings ==
  LET IsCash(w) == w.field = "startingCash"
  IN  SelectSeq(sanity.result.warnings, IsCash)

\* C17: passed is true exactly when no warning has severity high.
C17_PassedIffNoHigh ==
  sanity # Nothing =>
    (sanity.result.passed <=>
       \A i \in 1..Len(sanity.result.warnings) :
         sanity.result.warnings[i].severity # "high")

\* a result that passed with a medium and a low warning
C17_Witness ==
  /\ sanity # Nothing
  /\ sanity.result.passed
  /\ \E i, j \in 1..Len(sanity.result.warnings) :
       /\ sanity.result.warnings[i].severity = "medium"
       /\ sanity.result.warnings[j].severity = "low"

\* the estimated monthly burn of the call made
EstimatedBurn ==
  JsAdd(sanity.assumptions.fixedCostsPerMonth,
        JsMul(sanity.assumptions.expectedNewCustomersPerMonth,
              sanity.assumptions.cac))

\* startingCash / EstimatedBurn < months, without the division
RunwayBelow(months) ==
  IF JsGt(EstimatedBurn, I(0))
    THEN JsLt(sanity.company.startingCash, JsMul(I(months), EstimatedBurn))
    ELSE JsGt(sanity.company.startingCash, JsMul(I(months), EstimatedBurn))

\* C18: with the runway estimated as startingCash / (fixedCostsPerMonth +
\* expectedNewCustomersPerMonth x cac), there is one startingCash warning of
\* severity high when the estimate is < 6, one of severity medium when it is
\* >= 6 and < 12, none when it is >= 12; when the estimated burn is zero
\* the call returns its result with no startingCash warning.
C18_RunwayWarning ==
  sanity # Nothing =>
    /\ sanity.result.passed \in BOOLEAN
    /\ IF EstimatedBurn = I(0) THEN CashWarnings = <<>>
       ELSE IF RunwayBelow(6)
         THEN CashWarnings = <<Warning("high", "startingCash")>>
       ELSE IF RunwayBelow(12)
         THEN CashWarnings = <<Warning("medium", "startingCash")>>
       ELSE CashWarnings = <<>>

\* a runway of exactly 6 months has the medium warning
C18_Witness ==
  /\ sanity # Nothing
  /\ JsGt(EstimatedBurn, I(0))
  /\ sanity.company.startingCash = JsMul(I(6), EstimatedBurn)
  /\ CashWarnings = <<Warning("medium", "startingCash")>>

(***************************************************************************)
(* The API routes of one workspace                                         *)
(***************************************************************************)
\* store: the rows of the workspace: the numbers of companies, of updates
\* made to a company, of assumption sets and of scenarios, the scenario that
\* is the default one (0: none), the number of times the stored projections
\* of a scenario were replaced, and the number of audit log rows.
\* response: the route, the requester and the status of the last response.

\* the members of the workspace and their roles; "stranger" is a user of
\* another workspace, "nobody" a request without a session
Members == [owner |-> "OWNER", editor |-> "EDITOR", viewer |-> "VIEWER"]

Requesters == {"owner", "editor", "viewer", "stranger", "nobody"}

\* the most audit log rows
MaxAudit == 4

\* checkWorkspaceAccess(userId, workspaceId)
checkWorkspaceAccess(userId) == userId \in DOMAIN Members

\* checkWorkspaceRole(userId, workspaceId, requiredRole)
checkWorkspaceRole(userId, requiredRoles) ==
  userId \in DOMAIN Members /\ Members[userId] \in requiredRoles

\* canEdit(userId, workspaceId)
canEdit(userId) == checkWorkspaceRole(userId, {"OWNER", "EDITOR"})

\* if (!session?.user?.email) return 401
HasSession(userId) == userId # "nobody"

Respond(route, userId, status) ==
  response' = [route |-> route, user |-> userId, status |-> status]

\* logAuditEvent after a write: one more audit log row
Audited(row) == [row EXCEPT !.auditLog = @ + 1]

\* a handler that reads only: GET /api/companies, GET /api/scenarios,
\* GET /api/activity
View(userId) ==
  /\ IF ~HasSession(userId) THEN Respond("view", userId, 401)
     ELSE IF ~checkWorkspaceAccess(userId) THEN Respond("view", userId, 403)
     ELSE Respond("view", userId, 200)
  /\ UNCHANGED <<engine, sanity, store, runs>>

\* POST /api/exports/[format]
Export(userId) ==
  /\ store.auditLog < MaxAudit
  /\ IF ~HasSession(userId)
       THEN Respond("export", userId, 401) /\ UNCHANGED store
     ELSE IF store.scenarios = 0
       THEN Respond("export", userId, 404) /\ UNCHANGED store
     ELSE IF ~checkWorkspaceAccess(userId)
       THEN Respond("export", userId, 403) /\ UNCHANGED store
     ELSE IF store.projections = 0
       THEN Respond("export", userId, 400) /\ UNCHANGED store
     ELSE Respond("export", userId, 200) /\ store' = Audited(store)
  /\ UNCHANGED <<engine, sanity, runs>>

\* POST /api/companies
CreateCompany(userId) ==
  /\ store.auditLog < MaxAudit
  /\ IF ~HasSession(userId)
       THEN Respond("createCompany", userId, 401) /\ UNCHANGED store
     ELSE IF ~canEdit(userId)
       THEN Respond("createCompany", userId, 403) /\ UNCHANGED store
     ELSE /\ Respond("createCompany", userId, 201)
          /\ store' = Audited([store EXCEPT !.companies = @ + 1])
  /\ UNCHANGED <<engine, sanity, runs>>

\* PATCH /api/companies/[companyId]
UpdateCompany(userId) ==
  /\ store.auditLog < MaxAudit
  /\ IF ~HasSession(userId)
       THEN Respond("updateCompany", userId, 401) /\ UNCHANGED store
     ELSE IF store.companies = 0
       THEN Respond("updateCompany", userId, 404) /\ UNCHANGED store
     ELSE IF ~canEdit(userId)
       THEN Respond("updateCompany", userId, 403) /\ UNCHANGED store
     ELSE /\ Respond("updateCompany", userId, 200)
          /\ store' = Audited([store EXCEPT !.companyEdits = @ + 1])
  /\ UNCHANGED <<engine, sanity, runs>>

\* POST /api/assumptions
CreateAssumptionSet(userId) ==
  /\ store.auditLog < MaxAudit
  /\ IF ~HasSession(userId)
       THEN Respond("createAssumptionSet", userId, 401) /\ UNCHANGED store
     ELSE IF store.companies = 0
       THEN Respond("createAssumptionSet", userId, 404) /\ UNCHANGED store
     ELSE IF ~canEdit(userId)
       THEN Respond("createAssumptionSet", userId, 403) /\ UNCHANGED store
     ELSE /\ Respond("createAssumptionSet", userId, 201)
          /\ store' = Audited([store EXCEPT !.assumptionSets = @ + 1])
  /\ UNCHANGED <<engine, sanity, runs>>

\* POST /api/scenarios
CreateScenario(userId, isDefault) ==
  /\ store.auditLog < MaxAudit
  /\ IF ~HasSession(userId)
       THEN Respond("createScenario", userId, 401) /\ UNCHANGED store
     ELSE IF store.assumptionSets = 0
       THEN Respond("createScenario", userId, 404) /\ UNCHANGED store
     ELSE IF ~canEdit(userId)
       THEN Respond("createScenario", userId, 403) /\ UNCHANGED store
     ELSE /\ Respond("createScenario", userId, 201)
          /\ store' =
               Audited([store EXCEPT
                          !.scenarios = @ + 1,
                          !.defaultScenario =
                            IF isDefault THEN store.scenarios + 1 ELSE @])
  /\ UNCHANGED <<engine, sanity, runs>>

\* POST /api/projections/run: the stored projections of the scenario are
\* deleted and those of the run are stored
RunProjections(userId) ==
  /\ store.auditLog < MaxAudit
  /\ IF ~HasSession(userId)
       THEN Respond("runProjections", userId, 401) /\ UNCHANGED store
     ELSE IF store.scenarios = 0
       THEN Respond("runProjections", userId, 404) /\ UNCHANGED store
     ELSE IF ~checkWorkspaceAccess(userId)
       THEN Respond("runProjections", userId, 403) /\ UNCHANGED store
     ELSE /\ Respond("runProjections", userId, 200)
          /\ store' = Audited([store EXCEPT !.projections = @ + 1])
  /\ UNCHANGED <<engine, sanity, runs>>

NextApi ==
  \E userId \in Requesters :
    \/ View(userId)
    \/ Export(userId)
    \/ CreateCompany(userId)
    \/ UpdateCompany(userId)
    \/ CreateAssumptionSet(userId)
    \/ \E isDefault \in BOOLEAN : CreateScenario(userId, isDefault)
    \/ RunProjections(userId)

\* any requests to the routes of the workspace, one after the other
SpecApi == Init /\ [][NextApi]_vars

\* the stored data a VIEWER may not change
StoredData ==
  <<store.companies, store.companyEdits, store.assumptionSets,
    store.scenarios, store.defaultScenario, store.projections>>

\* C19: every request that creates, replaces or deletes stored data
\* (companies, assumption sets, scenarios, stored projections) is one of an
\* OWNER or an EDITOR; a request of anyone else leaves the stored data as
\* it was.
C19_OnlyEditorsWrite ==
  [][StoredData' # StoredData => canEdit(response'.user)]_vars

(***************************************************************************)
(* More of the summary and of the month loop (Spec)                        *)
(***************************************************************************)
\* the sum of netBurn over the months with netBurn > 0
PositiveBurnSum ==
  SumSeq([i \in Months |->
            IF i \in Burning THEN projections[i].netBurn ELSE I(0)])

\* C21: avgMonthlyBurn is the mean of netBurn over the records with
\* netBurn > 0 only, and 0 when there is none; totalCashBurned, the sum of
\* the positive net burns, is avgMonthlyBurn times the number of those
\* records.
C21_AverageBurn ==
  Returned =>
    /\ summary.totalCashBurned = PositiveBurnSum
    /\ summary.totalCashBurned =
         JsMul(summary.avgMonthlyBurn, I(Cardinality(Burning)))
    /\ Burning = {} => summary.avgMonthlyBurn = I(0)
    /\ Burning # {} =>
         summary.avgMonthlyBurn =
           JsDiv(PositiveBurnSum, I(Cardinality(Burning)))

\* some months burn and some do not, and the burns differ
C21_Witness ==
  /\ Returned
  /\ Cardinality(Burning) >= 2
  /\ Cardinality(Burning) < Len(projections)
  /\ \E i, j \in Burning : projections[i].netBurn # projections[j].netBurn
  /\ JsGt(summary.avgMonthlyBurn, I(0))

\* C22: the month-0 record's startingCash is company.startingCash, every
\* later record's startingCash is the endingCash of the record before it,
\* in every record netBurn = totalOpex - revenue and endingCash =
\* startingCash - netBurn; so the last endingCash is company.startingCash
\* less the sum of netBurn over all the months.
C22_CashThreaded ==
  /\ \A i \in Months :
       /\ projections[i].startingCash =
            IF i = 1 THEN input.company.startingCash
            ELSE projections[i - 1].endingCash
       /\ projections[i].netBurn =
            JsSub(projections[i].totalOpex, projections[i].revenue)
       /\ projections[i].endingCash =
            JsSub(projections[i].startingCash, projections[i].netBurn)
  /\ Len(projections) >= 1 =>
       projections[Len(projections)].endingCash =
         JsSub(input.company.startingCash,
               SumSeq([i \in Months |-> projections[i].netBurn]))

\* a run of the whole horizon from a positive balance, with revenue and
\* costs, a month of burn and a month of profit
C22_Witness ==
  /\ Returned
  /\ Len(projections) = MaxMonths
  /\ JsGt(input.company.startingCash, I(0))
  /\ \E i, j \in Months :
       /\ JsGt(projections[i].netBurn, I(0))
       /\ JsLt(projections[j].netBurn, I(0))
       /\ JsGt(projections[i].revenue, I(0))

\* the customers month i (1-based) starts with, the first month from start
PreviousActive(i, start) ==
  IF i = 1 THEN start ELSE projections[i - 1].activeCustomers

\* the customers of every month follow from those before it, the first
\* month from start, and the revenue from the customers of the month
CustomersThreadedFrom(start) ==
  \A i \in Months :
    /\ projections[i].churnedCustomers =
         JsMul(PreviousActive(i, start), effectiveAssumptions.churnRate)
    /\ projections[i].activeCustomers =
         MathMax(I(0),
                 JsSub(JsAdd(PreviousActive(i, start),
                             projections[i].newCustomers),
                       projections[i].churnedCustomers))
    /\ projections[i].mrr =
         calculateRevenue(projections[i].activeCustomers,
                          effectiveAssumptions).mrr
    /\ projections[i].revenue =
         calculateRevenue(projections[i].activeCustomers,
                          effectiveAssumptions).revenue

\* C23: for every month m, churnedCustomers[m] = previous active x
\* effective churnRate and activeCustomers[m] = max(0, previous active +
\* newCustomers[m] - churnedCustomers[m]), the previous active being
\* activeCustomers[m-1] for m >= 1 and the derived starting count
\* (company.startingMRR / arpu) for m = 0; the revenue of month m is
\* computed from activeCustomers[m].
C23_CustomersThreaded ==
  pc \in {"loop", "returned"} => CustomersThreadedFrom(DerivedCustomers(input))

(***************************************************************************)
(* The hiring plan over a longer horizon (SpecHiring)                      *)
(***************************************************************************)
\* the longest horizon of these runs
MaxHorizon == 8

\* the hiring plan of the README's example
ReadmePlan ==
  <<Hire(0, "Engineer", 3, 10000, "ENGINEERING"),
    Hire(6, "Sales Rep", 2, 8000, "SALES")>>

\* the README's example with no churn, its horizon m months, with other
\* plans and with hiring overrides
HiringInputs ==
  LET sets == {Assumptions([year |-> 2024, month |-> 1], m, I(100), I(10),
                           Q(1, 20), I(0), I(15000)) :
                 m \in {MaxHorizon - 1, MaxHorizon}}
      plans == {ReadmePlan,
                <<Hire(3, "Designer", 1, 6000, "PRODUCT"),
                  Hire(1, "Engineer", 2, 5000, "ENGINEERING")>>}
      overrides == {EmptyObject,
                    [hiringDelayMonths |-> I(2), salaryMultiplier |-> Q(3, 2)],
                    [hiringDelayMonths |-> I(-1)]}
  IN  {[company |-> Company(I(500000), I(10000)), assumptions |-> a,
        hiringPlan |-> h] : a \in sets, h \in plans}
      \cup
      {[company |-> Company(I(500000), I(10000)), assumptions |-> a,
        hiringPlan |-> h, scenarioOverrides |-> o] :
         a \in sets, h \in plans, o \in overrides}

\* the call of a caller with a hiring plan
RunHiring == pc = "idle" /\ \E inp \in HiringInputs : Call(inp)

NextHiring == RunHiring \/ MonthStep \/ Finish

\* one call of runScenario, on any of HiringInputs
SpecHiring == Init /\ [][NextHiring]_vars

\* what the item contributes to the salary costs of month m
Contribution(item, m) ==
  IF JsLe(JsAdd(item.monthOffset,
                Nullish(Opt(Overrides, "hiringDelayMonths"), I(0))),
          I(m))
    THEN JsMul(JsMul(item.count, item.monthlySalaryPerHead),
               Nullish(Opt(Overrides, "salaryMultiplier"), I(1)))
    ELSE I(0)

\* C24: an item of the hiring plan contributes count x monthlySalaryPerHead
\* x salaryMultiplier to salaryCosts in exactly the months m with
\* monthOffset + hiringDelayMonths <= m (delay 0, multiplier 1 by default),
\* and from the first such month in every later month; in the README's
\* example salaryCosts is 30000 in months 0 to 5 and 46000 from month 6 on.
C24_HiringPersists ==
  \A i \in Months :
    /\ projections[i].salaryCosts =
         SumSeq([n \in 1..Len(input.hiringPlan) |->
                   Contribution(input.hiringPlan[n], i - 1)])
    /\ \A n \in 1..Len(input.hiringPlan) :
         (i >= 2 /\ Contribution(input.hiringPlan[n], i - 2) # I(0)) =>
           Contribution(input.hiringPlan[n], i - 1) =
             Contribution(input.hiringPlan[n], i - 2)
    /\ (input.hiringPlan = ReadmePlan /\ IsUndefined(Overrides)) =>
         projections[i].salaryCosts = IF i - 1 <= 5 THEN I(30000) ELSE I(46000)

\* the README's example ran past month 6
C24_Witness ==
  /\ Returned
  /\ input.hiringPlan = ReadmePlan
  /\ IsUndefined(Overrides)
  /\ Len(projections) >= 7
  /\ projections[6].salaryCosts = I(30000)
  /\ projections[7].salaryCosts = I(46000)

\* the months that end with no cash
OutOfCashMonths == {i \in Months : JsLe(projections[i].endingCash, I(0))}

\* C25: zeroCashMonth is the month label of the first record (lowest
\* monthIndex) whose endingCash <= 0, and null exactly when every record
\* has endingCash > 0; cash that recovers above zero later does not change
\* it.
C25_ZeroCashMonth ==
  Returned =>
    IF OutOfCashMonths = {} THEN summary.zeroCashMonth = Null
    ELSE /\ summary.zeroCashMonth # Null
         /\ \E i \in OutOfCashMonths :
              /\ \A j \in OutOfCashMonths : i <= j
              /\ summary.zeroCashMonth = projections[i].month
              /\ summary.zeroCashMonth =
                   addMonths(input.assumptions.startMonth, i - 1)

\* month 0 ended below zero and the last month of the run above it: the
\* summary still names month 0
C25_Witness ==
  /\ Returned
  /\ Len(projections) = MaxMonths
  /\ MaxMonths >= 2
  /\ 1 \in OutOfCashMonths
  /\ JsGt(projections[Len(projections)].endingCash, I(0))
  /\ summary.zeroCashMonth = projections[1].month

\* the ranges of assumptionSetSchema for the rates the costs use
WithinBounds(assumptions) ==
  /\ JsLe(I(0), assumptions.churnRate) /\ JsLe(assumptions.churnRate, I(1))
  /\ JsLe(I(0), assumptions.expansionRevenueRate)
  /\ JsLe(assumptions.expansionRevenueRate, I(1))
  /\ JsLe(I(0), assumptions.variableCostPercentOfRevenue)
  /\ JsLe(assumptions.variableCostPercentOfRevenue, I(1))
  /\ JsLe(I(0), assumptions.grossMarginPercent)
  /\ JsLe(assumptions.grossMarginPercent, I(100))

\* C26: for base assumptions within the bounds and any overrides, the
\* effective assumptions of the month loop are within the bounds too
\* (expansionRevenueRate and variableCostPercentOfRevenue in [0,1],
\* grossMarginPercent in [0,100]), so every record has cogs >= 0 and
\* grossProfit <= revenue.
C26_EffectiveWithinBounds ==
  (/\ pc \in {"loop", "returned"}
   /\ WithinBounds(input.assumptions)
   /\ JsGt(input.assumptions.arpu, I(0))) =>
    /\ WithinBounds(effectiveAssumptions)
    /\ \A i \in Months :
         /\ JsLe(I(0), projections[i].cogs)
         /\ JsLe(projections[i].grossProfit, projections[i].revenue)

\* C27: in every returned summary minRunway is never negative, and
\* zeroCashMonth is non-null if and only if minRunway = 0: a month whose
\* endingCash <= 0 has runwayMonths 0, and every other non-null monthly
\* runway is strictly positive.
C27_MinRunway ==
  Returned =>
    /\ summary.minRunway # Null => JsLe(I(0), summary.minRunway)
    /\ summary.zeroCashMonth # Null <=> summary.minRunway = I(0)
    /\ \A i \in Months :
         IF i \in OutOfCashMonths THEN projections[i].runwayMonths = I(0)
         ELSE \/ projections[i].runwayMonths = Null
              \/ JsGt(projections[i].runwayMonths, I(0))

\* a run with a month out of cash and a month with a positive runway
C27_Witness ==
  /\ Returned
  /\ summary.zeroCashMonth # Null
  /\ summary.minRunway = I(0)
  /\ \E i \in Months :
       /\ projections[i].runwayMonths # Null
       /\ JsGt(projections[i].runwayMonths, I(0))
  /\ \E i \in Months : JsLt(projections[i].endingCash, I(0))

\* the fields runSanityChecks warns about, in the order of its checks
FieldOrder ==
  <<"churnRate", "arpu", "cac", "paybackPeriodMonths", "grossMarginPercent",
    "startingCash", "expectedNewCustomersPerMonth", "expansionRevenueRate">>

Position(field) == CHOOSE i \in 1..Len(FieldOrder) : FieldOrder[i] = field

WarnedFields ==
  {sanity.result.warnings[i].field : i \in 1..Len(sanity.result.warnings)}

\* C28: the warnings returned by runSanityChecks hold at most one warning
\* per field name and appear in the fixed order of the fields; every check
\* is evaluated whatever the earlier checks found.
C28_OneWarningPerField ==
  sanity # Nothing =>
    LET warnings == sanity.result.warnings
        a == sanity.assumptions
    IN  /\ \A i \in 1..Len(warnings) :
             \E p \in 1..Len(FieldOrder) : FieldOrder[p] = warnings[i].field
        /\ \A i, j \in 1..Len(warnings) :
             i < j => Position(warnings[i].field) < Position(warnings[j].field)
        /\ "churnRate" \in WarnedFields <=> JsGt(a.churnRate, Q(3, 20))
        /\ "arpu" \in WarnedFields <=> JsLt(a.arpu, I(10))
        /\ "paybackPeriodMonths" \in WarnedFields <=>
             JsGt(a.paybackPeriodMonths, I(24))
        /\ "grossMarginPercent" \in WarnedFields <=>
             JsLt(a.grossMarginPercent, I(50)) \/ JsGt(a.grossMarginPercent, I(100))
        /\ "expectedNewCustomersPerMonth" \in WarnedFields <=>
             JsLt(a.expectedNewCustomersPerMonth, I(0))
        /\ "expansionRevenueRate" \in WarnedFields <=>
             JsLt(a.expansionRevenueRate, I(0)) \/ JsGt(a.expansionRevenueRate, I(1))

\* a call with a warning about every field, eight in all
C28_Witness ==
  /\ sanity # Nothing
  /\ Len(sanity.result.warnings) = Len(FieldOrder)
  /\ \A p \in 1..Len(FieldOrder) : FieldOrder[p] \in WarnedFields

(***************************************************************************)
(* POST /api/projections/run, one await at a time                          *)
(***************************************************************************)
\* requests[r]: how far request r has come ("none", "ran", "deleted",
\* "inserted", "done"), who made it and the status it answered with.
\* rows: the stored Projection rows of the scenario, each with the request
\* that stored it and its monthIndex.

\* the months of the stored assumption set of the scenario
StoredMonths == MaxMonths

\* result.projections.map(...): one row per record of the run
RunRows(r) == {[run |-> r, monthIndex |-> i] : i \in 0..(StoredMonths - 1)}

\* a row of one of the months of the run is stored already
DuplicateMonth(r) ==
  \E row \in rows, new \in RunRows(r) : row.monthIndex = new.monthIndex

\* the session, the user, the scenario and the access are looked up and
\* runScenario is called
LoadAndRun(r, userId) ==
  /\ requests[r].pc = "none"
  /\ IF ~HasSession(userId)
       THEN /\ Respond("runProjections", userId, 401)
            /\ requests' = [requests EXCEPT ![r] =
                              [pc |-> "done", user |-> userId, status |-> 401]]
     ELSE IF store.scenarios = 0
       THEN /\ Respond("runProjections", userId, 404)
            /\ requests' = [requests EXCEPT ![r] =
                              [pc |-> "done", user |-> userId, status |-> 404]]
     ELSE IF ~checkWorkspaceAccess(userId)
       THEN /\ Respond("runProjections", userId, 403)
            /\ requests' = [requests EXCEPT ![r] =
                              [pc |-> "done", user |-> userId, status |-> 403]]
     ELSE /\ requests' = [requests EXCEPT ![r] =
                            [pc |-> "ran", user |-> userId, status |-> 0]]
          /\ UNCHANGED response
  /\ UNCHANGED <<engine, sanity, store, rows>>

\* await prisma.projection.deleteMany({ where: { scenarioId } })
DeleteMany(r) ==
  /\ requests[r].pc = "ran"
  /\ rows' = {}
  /\ requests' = [requests EXCEPT ![r].pc = "deleted"]
  /\ UNCHANGED <<engine, sanity, store, response>>

\* await prisma.projection.createMany({ data: ... }). The rows are stored
\* beside those already there; whether the table takes two rows of one
\* scenario and month is set in prisma/schema.prisma, so with a month
\* stored already the call may also throw, which is caught and answered
\* with 500.
CreateMany(r) ==
  /\ requests[r].pc = "deleted"
  /\ \/ /\ rows' = rows \cup RunRows(r)
        /\ requests' = [requests EXCEPT ![r].pc = "inserted"]
        /\ UNCHANGED response
     \/ /\ DuplicateMonth(r)
        /\ Respond("runProjections", requests[r].user, 500)
        /\ requests' = [requests EXCEPT ![r].pc = "done", ![r].status = 500]
        /\ UNCHANGED rows
  /\ UNCHANGED <<engine, sanity, store>>

\* await logAuditEvent(...) and the response with the projections
LogAndRespond(r) ==
  /\ requests[r].pc = "inserted"
  /\ store' = Audited([store EXCEPT !.projections = @ + 1])
  /\ Respond("runProjections", requests[r].user, 200)
  /\ requests' = [requests EXCEPT ![r].pc = "done", ![r].status = 200]
  /\ UNCHANGED <<engine, sanity, rows>>

\* the owner stores a company, an assumption set and a scenario
StoreScenario ==
  \/ CreateCompany("owner")
  \/ CreateAssumptionSet("owner")
  \/ CreateScenario("owner", TRUE)

NextRuns ==
  \/ StoreScenario
  \/ \E r \in 1..MaxRequests :
       \/ \E userId \in Requesters : LoadAndRun(r, userId)
       \/ DeleteMany(r)
       \/ CreateMany(r)
       \/ LogAndRespond(r)

\* requests to POST /api/projections/run for one scenario, their awaits
\* interleaved
SpecRuns == Init /\ [][NextRuns]_vars

\* no request is under way, and one has stored its rows
RunsCompleted ==
  /\ \A r \in 1..MaxRequests : requests[r].pc \in {"none", "done"}
  /\ \E r \in 1..MaxRequests : requests[r].status = 200

RowsOf(i) == {row \in rows : row.monthIndex = i}

\* C29: after any number of requests to POST /api/projections/run for the
\* same scenario have completed, in any interleaving of their delete and
\* insert steps, the stored projections of the scenario are the output of
\* one run: one stored row per monthIndex 0..months-1, never none and never
\* several.
C29_OneRunStored ==
  RunsCompleted =>
    /\ \A i \in 0..(StoredMonths - 1) : Cardinality(RowsOf(i)) = 1
    /\ \E r \in 1..MaxRequests : rows = RunRows(r)

(***************************************************************************)
(* Several custom entries for one month (Spec)                             *)
(***************************************************************************)
\* the list with the first entry for month k and nothing else
OnlyFirstFor(k) ==
  IF EntriesFor(k) = {} THEN <<>>
  ELSE <<CustomEntries[First(EntriesFor(k))]>>

\* the overrides of the call with the list in the place of
\* customMonthlyOverrides
OverridesWith(list) ==
  IF CustomEntries = <<>> THEN Overrides
  ELSE [Overrides EXCEPT !.customMonthlyOverrides = [arr |-> list]]

\* C30: with several entries of customMonthlyOverrides for the same
\* monthOffset k, the customer and the cost calculation use only the first
\* of them in list order: a newCustomers or fixedCosts given only in a later
\* entry for k has no effect on the month-k record, and an entry for k never
\* affects another month. Every record has the newCustomers and fixedCosts
\* of a call whose list holds the first entry for its month and no other.
C30_FirstEntryOnly ==
  \A i \in Months :
    LET o == OverridesWith(OnlyFirstFor(i - 1))
        first == IF EntriesFor(i - 1) = {} THEN Undefined
                 ELSE CustomEntries[First(EntriesFor(i - 1))]
    IN  /\ projections[i].newCustomers =
             calculateActiveCustomers(I(0), effectiveAssumptions, i - 1,
                                      o).newCustomers
        /\ projections[i].fixedCosts =
             calculateCosts(projections[i].revenue, i - 1, input.hiringPlan,
                            effectiveAssumptions, o).fixedCosts
        /\ Opt(first, "newCustomers") # Undefined =>
             projections[i].newCustomers = first.newCustomers
        /\ Opt(first, "fixedCosts") # Undefined =>
             projections[i].fixedCosts = first.fixedCosts

\* month 1 has two entries, the first with fixedCosts 0 only, the second
\* with newCustomers 7 and fixedCosts 99: its record has the 10 new
\* customers of the assumptions and fixed costs of 0, and month 2 has the 3
\* new customers of its own entry
C30_Witness ==
  /\ Returned
  /\ Len(projections) >= 3
  /\ Cardinality(EntriesFor(1)) = 2
  /\ Cardinality(EntriesWith(1, "newCustomers")) = 1
  /\ ~("newCustomers" \in DOMAIN CustomEntries[First(EntriesFor(1))])
  /\ projections[2].newCustomers = I(10)
  /\ projections[2].fixedCosts = I(0)
  /\ input.assumptions.fixedCostsPerMonth = I(10000)
  /\ projections[3].newCustomers = I(3)
  /\ projections[1].newCustomers = I(10)

====
